---- MODULE Spec2Model ----
(***************************************************************************)
(* Binary Indexed Tree (Fenwick tree) of psajjan/Data_structures.           *)
(*                                                                         *)
(* The repository holds two programs:                                      *)
(*   binary_indexed_tree/BIT_1.cpp            class BinaryIndexedTree      *)
(*   binary_indexed_tree/BIT_2_compact_1.cpp  class BinaryIndexedTree_Compact *)
(* A behaviour of this module is a sequence of calls on ONE object of one   *)
(* of the two classes (prog says which), made by a single thread.  The      *)
(* methods whose loop can fail to stop (updateTree, getSum, and             *)
(* createFenwickTree which calls updateTree) are modelled one loop          *)
(* iteration per step, with pc as the position of the thread; all other     *)
(* methods always stop and are one step each.                               *)
(*                                                                         *)
(* Vectors are functions over 0 .. size-1.  Cell 0 is the dummy cell.       *)
(* Index arguments are drawn from 0 .. size (that is 0 .. capacity+1);      *)
(* negative indices and getSum beyond the buffer index the vector out of    *)
(* bounds (undefined behaviour) and are not drawn.                          *)
(***************************************************************************)
EXTENDS Integers, FiniteSets

VARIABLES
    prog,            \* which program runs: "BIT_1" or "BIT_2_compact_1"
    _size,           \* BinaryIndexedTree::_size
    _bitArray,       \* BinaryIndexedTree::_bitArray
    N,               \* BinaryIndexedTree_Compact::N
    BIT,             \* BinaryIndexedTree_Compact::BIT
    pc,              \* position of the thread: "idle" or the running method
    ret,             \* where updateTree returns to: "idle" or "createFenwickTree"
    idx,             \* updateTree: parameter idx (the walking index)
    value,           \* updateTree: parameter value
    sum,             \* getSum: local sum
    ancestorIdx,     \* getSum: local ancestorIdx
    predecessorIdx,  \* getSum: local predecessorIdx
    startIdx,        \* getSum: parameter startIdx
    cIdx,            \* createFenwickTree: loop variable idx
    input,           \* createFenwickTree: parameter input (kept until the next call)
    elems,           \* history: logical elements, the sum of the deltas applied to each index 1 .. capacity
    builds,          \* history: number of times the buffer was sized (createFenwickTree, effective init)
    pre,             \* history: the buffer when the last call began
    call,            \* history: the last call, [op, a, b]
    result,          \* history: value returned by the last call (0 for void)
    outcome          \* history: how the last call ended: "none" (running / never called) or "returned"

bit1   == <<_size, _bitArray>>
bit2   == <<N, BIT>>
vars   == <<prog, _size, _bitArray, N, BIT, pc, ret, idx, value, sum, ancestorIdx,
            predecessorIdx, startIdx, cIdx, input, elems, builds, pre, call, result, outcome>>

---------------------------------------------------------------------------
(* Bounds of the model *)

\* largest capacity (number of logical elements) a structure is created with
MaxCap == 4
\* number of times one object's buffer is sized (createFenwickTree / init calls that resize)
MaxBuilds == 2

\* the model's int holds -IntMax-1 .. IntMax (INT_MAX is 2^31 - 1 in the builds of the
\* program).  No call that returns computes a value outside that range; its ends are
\* reached only by the dummy cell while updateTree spins at index 0
IntMax == MaxCap + 1

\* the values a logical element takes, and the deltas update is called with.  Every
\* operation is linear in the cells, so the elements 0 and 1 tell apart any two
\* choices of the cells a walk visits.
ElemValues == {0, 1}
Deltas == {-1, 1}

---------------------------------------------------------------------------
(* Bit arithmetic *)

\* a & b of two's-complement integers (any width that holds both)
RECURSIVE BitAnd(_, _)
BitAnd(a, b) ==
    IF a = 0 \/ b = 0 THEN 0
    ELSE IF a = -1 THEN b
    ELSE IF b = -1 THEN a
    ELSE (a % 2) * (b % 2) + 2 * BitAnd(a \div 2, b \div 2)

getPrev_Dec(i) == i - 1
\* BinaryIndexedTree::getPrev
getPrev(i) == i - BitAnd(i, -i)

getNext_Inc(i) == i + 1
\* BinaryIndexedTree::getNext
getNext(i) == i + BitAnd(i, -i)

\* int arithmetic: the result of + and - as an int: it wraps around the ends of the range.
\* (Signed overflow is undefined in C++; wrapping is what the hardware's add gives.)
int(x) == ((x + IntMax + 1) % (2 * IntMax + 2)) - (IntMax + 1)

\* BinaryIndexedTree_Compact::lowbit
lowbit(id) == BitAnd(id, -id)

\* BinaryIndexedTree_Compact::check
check(id) == 1 <= id /\ id < N

\* std::vector<int>::resize(n, 0): keeps the cells it has, new cells are 0
resize(vec, n) == [k \in 0 .. (n - 1) |-> IF k \in DOMAIN vec THEN vec[k] ELSE 0]

EmptyVec == [k \in {} |-> 0]

---------------------------------------------------------------------------
(* BinaryIndexedTree: the methods that always stop *)

\* getPrefixSum, the loop "while (idx > 0)"
RECURSIVE getPrefixSum_loop(_, _, _)
getPrefixSum_loop(bit, i, s) ==
    IF i > 0 THEN getPrefixSum_loop(bit, getPrev(i), int(s + bit[i])) ELSE s

\* BinaryIndexedTree::getPrefixSum on buffer bit
getPrefixSum(bit, i) ==
    IF i >= _size THEN 0 ELSE getPrefixSum_loop(bit, i, 0)

getOriginalValue_cond_Late(p, anc) == p > anc + 1
\* getOriginalValue, "while (predecessorIdx > ancesterIdx)"
getOriginalValue_cond(p, anc) == p > anc

\* getOriginalValue, the loop "value -= _bitArray[predecessorIdx]; predecessorIdx = getPrev(predecessorIdx)"
RECURSIVE getOriginalValue_loop(_, _, _, _)
getOriginalValue_loop(bit, anc, p, v) ==
    IF getOriginalValue_cond(p, anc) THEN getOriginalValue_loop(bit, anc, getPrev(p), int(v - bit[p])) ELSE v

\* BinaryIndexedTree::getOriginalValue on buffer bit
getOriginalValue(bit, i) ==
    IF i >= _size THEN 0 ELSE getOriginalValue_loop(bit, getPrev(i), i - 1, bit[i])

---------------------------------------------------------------------------
(* BinaryIndexedTree_Compact: add and sum *)

\* BinaryIndexedTree_Compact::add, "for (i = id; check(i); i += lowbit(i)) BIT[i] += num"
RECURSIVE add(_, _, _)
add(bit, i, num) ==
    IF check(i) THEN add([bit EXCEPT ![i] = int(@ + num)], i + lowbit(i), num) ELSE bit

\* the loop of BinaryIndexedTree_Compact::sum
RECURSIVE sum_loop(_, _, _)
sum_loop(bit, i, r) ==
    IF check(i) THEN sum_loop(bit, i - lowbit(i), int(r + bit[i])) ELSE r

\* BinaryIndexedTree_Compact::sum, "ret = 0; for (i = id; check(i); i -= lowbit(i)) ret += BIT[i]"
sumOf(bit, id) == sum_loop(bit, id, 0)

---------------------------------------------------------------------------
(* History helpers *)

\* capacity: the buffer holds the dummy cell 0 and the cells 1 .. capacity
capacity == IF prog = "BIT_1" THEN _size - 1 ELSE N - 1

\* the buffer of the running program
cells == IF prog = "BIT_1" THEN _bitArray ELSE BIT

RECURSIVE SumElems(_, _, _)
\* e[lo] + ... + e[hi]
SumElems(e, lo, hi) == IF lo > hi THEN 0 ELSE e[hi] + SumElems(e, lo, hi - 1)

\* logical elements over 1 .. cap after the deltas d[1 .. cap] are applied on top of e
Applied(e, d, cap) ==
    [i \in 1 .. cap |-> (IF i \in DOMAIN e THEN e[i] ELSE 0) + d[i]]

InRange(e) == \A i \in DOMAIN e : e[i] \in ElemValues

NoLocals ==
    /\ idx' = 0 /\ value' = 0 /\ sum' = 0 /\ ancestorIdx' = 0
    /\ predecessorIdx' = 0 /\ startIdx' = 0 /\ cIdx' = 0

\* a one-step call: it begins and returns in the same step
Returns(op, a, b, r) ==
    /\ call' = [op |-> op, a |-> a, b |-> b]
    /\ result' = r
    /\ outcome' = "returned"
    /\ pre' = cells
    /\ input' = EmptyVec
    /\ pc' = "idle" /\ ret' = "idle"
    /\ NoLocals

---------------------------------------------------------------------------
Init ==
    /\ prog \in {"BIT_1", "BIT_2_compact_1"}
    /\ _size = 0 /\ _bitArray = EmptyVec          \* BinaryIndexedTree()
    /\ N = 0 /\ BIT = EmptyVec                    \* BinaryIndexedTree_Compact()
    /\ pc = "idle" /\ ret = "idle"
    /\ idx = 0 /\ value = 0 /\ sum = 0 /\ ancestorIdx = 0
    /\ predecessorIdx = 0 /\ startIdx = 0 /\ cIdx = 0
    /\ input = EmptyVec
    /\ elems = EmptyVec
    /\ builds = 0
    /\ pre = EmptyVec
    /\ call = [op |-> "none", a |-> 0, b |-> 0]
    /\ result = 0
    /\ outcome = "none"

---------------------------------------------------------------------------
(* BinaryIndexedTree::createFenwickTree *)

\* the vectors createFenwickTree is called with: sizes 0 .. MaxCap+1, dummy element 0
Inputs ==
    {EmptyVec} \cup
    UNION {{v \in [0 .. n -> ElemValues] : v[0] = 0} : n \in 0 .. MaxCap}

\* "_size = input.size(); _bitArray.resize(_size, 0); idx = 1"
createFenwickTree(inp) ==
    /\ prog = "BIT_1" /\ pc = "idle"
    /\ builds < MaxBuilds
    /\ InRange(Applied(elems, inp, Cardinality(DOMAIN inp) - 1))
    /\ _size' = Cardinality(DOMAIN inp)
    /\ _bitArray' = resize(_bitArray, _size')
    /\ input' = inp
    /\ cIdx' = 1
    /\ pc' = "createFenwickTree" /\ ret' = "idle"
    /\ elems' = Applied(elems, inp, _size' - 1)
    /\ builds' = builds + 1
    /\ pre' = _bitArray
    /\ call' = [op |-> "createFenwickTree", a |-> _size', b |-> 0]
    /\ result' = 0 /\ outcome' = "none"
    /\ UNCHANGED <<prog, bit2, idx, value, sum, ancestorIdx, predecessorIdx, startIdx>>

\* "idx < input.size()": call updateTree(idx, input[idx])
createFenwickTree_loop ==
    /\ pc = "createFenwickTree"
    /\ cIdx < Cardinality(DOMAIN input)
    /\ pc' = "updateTree" /\ ret' = "createFenwickTree"
    /\ idx' = cIdx /\ value' = input[cIdx]
    /\ UNCHANGED <<prog, bit1, bit2, sum, ancestorIdx, predecessorIdx, startIdx, cIdx,
                   input, elems, builds, pre, call, result, outcome>>

\* the loop is over: createFenwickTree returns
createFenwickTree_return ==
    /\ pc = "createFenwickTree"
    /\ ~(cIdx < Cardinality(DOMAIN input))
    /\ pc' = "idle" /\ ret' = "idle"
    /\ NoLocals
    /\ outcome' = "returned"
    /\ UNCHANGED <<prog, bit1, bit2, input, elems, builds, pre, call, result>>

---------------------------------------------------------------------------
(* BinaryIndexedTree::updateTree *)

updateTree_cond_Short(i) == i < _size - 1
\* "while (idx < _size)"
updateTree_cond(i) == i < _size

\* a call updateTree(i, v) by the user of the object
updateTree(i, v) ==
    /\ prog = "BIT_1" /\ pc = "idle"
    /\ i \in 1 .. capacity => elems[i] + v \in ElemValues
    /\ pc' = "updateTree" /\ ret' = "idle"
    /\ idx' = i /\ value' = v
    /\ elems' = IF i \in 1 .. capacity THEN [elems EXCEPT ![i] = @ + v] ELSE elems
    /\ pre' = _bitArray
    /\ call' = [op |-> "updateTree", a |-> i, b |-> v]
    /\ result' = 0 /\ outcome' = "none"
    /\ input' = EmptyVec
    /\ UNCHANGED <<prog, bit1, bit2, sum, ancestorIdx, predecessorIdx, startIdx, cIdx, builds>>

\* one iteration: "_bitArray[idx] += value; idx = getNext(idx)"
updateTree_loop ==
    /\ pc = "updateTree"
    /\ updateTree_cond(idx)
    /\ _bitArray' = [_bitArray EXCEPT ![idx] = int(@ + value)]
    /\ idx' = getNext(idx)
    /\ UNCHANGED <<prog, _size, bit2, pc, ret, value, sum, ancestorIdx, predecessorIdx,
                   startIdx, cIdx, input, elems, builds, pre, call, result, outcome>>

\* the loop is over: updateTree returns, to the user or into createFenwickTree's "++idx"
updateTree_return ==
    /\ pc = "updateTree"
    /\ ~updateTree_cond(idx)
    /\ pc' = ret /\ ret' = "idle"
    /\ idx' = 0 /\ value' = 0
    /\ IF ret = "createFenwickTree"
          THEN cIdx' = cIdx + 1 /\ UNCHANGED outcome
          ELSE cIdx' = 0 /\ outcome' = "returned"
    /\ UNCHANGED <<prog, bit1, bit2, sum, ancestorIdx, predecessorIdx, startIdx,
                   input, elems, builds, pre, call, result>>

---------------------------------------------------------------------------
(* BinaryIndexedTree::getSum *)

getSum_cond_Strict(a, s) == a > s
\* "while (ancestorIdx >= startIdx)" of the do-while loop
getSum_cond(a, s) == a >= s

\* "while (predecessorIdx > ancestorIdx)"
getSum_sub_cond(p, a) == p > a

\* a call getSum(s, e); "if (startIdx > endIdx) return sum" or "ancestorIdx = endIdx"
getSum(s, e) ==
    /\ prog = "BIT_1" /\ pc = "idle"
    /\ IF s > e
          THEN Returns("getSum", s, e, 0)
          ELSE /\ pc' = "getSum_do" /\ ret' = "idle"
               /\ startIdx' = s /\ ancestorIdx' = e /\ sum' = 0
               /\ idx' = 0 /\ value' = 0 /\ predecessorIdx' = 0 /\ cIdx' = 0
               /\ pre' = _bitArray
               /\ call' = [op |-> "getSum", a |-> s, b |-> e]
               /\ result' = 0 /\ outcome' = "none"
               /\ input' = EmptyVec
    /\ UNCHANGED <<prog, bit1, bit2, elems, builds>>

\* the body of the do-while: "sum += _bitArray[ancestorIdx]; ancestorIdx = getPrev(ancestorIdx)"
getSum_do ==
    /\ pc = "getSum_do"
    /\ sum' = int(sum + _bitArray[ancestorIdx])
    /\ ancestorIdx' = getPrev(ancestorIdx)
    /\ pc' = "getSum_while"
    /\ UNCHANGED <<prog, bit1, bit2, ret, idx, value, predecessorIdx, startIdx, cIdx,
                   input, elems, builds, pre, call, result, outcome>>

\* the condition of the do-while; on exit "predecessorIdx = startIdx - 1"
getSum_while ==
    /\ pc = "getSum_while"
    /\ IF getSum_cond(ancestorIdx, startIdx)
          THEN pc' = "getSum_do" /\ UNCHANGED predecessorIdx
          ELSE pc' = "getSum_sub" /\ predecessorIdx' = startIdx - 1
    /\ UNCHANGED <<prog, bit1, bit2, ret, idx, value, sum, ancestorIdx, startIdx, cIdx,
                   input, elems, builds, pre, call, result, outcome>>

\* one iteration: "sum -= _bitArray[predecessorIdx]; predecessorIdx = getPrev(predecessorIdx)"
getSum_sub ==
    /\ pc = "getSum_sub"
    /\ getSum_sub_cond(predecessorIdx, ancestorIdx)
    /\ sum' = int(sum - _bitArray[predecessorIdx])
    /\ predecessorIdx' = getPrev(predecessorIdx)
    /\ UNCHANGED <<prog, bit1, bit2, pc, ret, idx, value, ancestorIdx, startIdx, cIdx,
                   input, elems, builds, pre, call, result, outcome>>

\* "return sum"
getSum_return ==
    /\ pc = "getSum_sub"
    /\ ~getSum_sub_cond(predecessorIdx, ancestorIdx)
    /\ result' = sum
    /\ outcome' = "returned"
    /\ pc' = "idle"
    /\ NoLocals
    /\ UNCHANGED <<prog, bit1, bit2, ret, input, elems, builds, pre, call>>

---------------------------------------------------------------------------
(* BinaryIndexedTree: the one-step queries *)

getPrefixSum_call(i) ==
    /\ prog = "BIT_1" /\ pc = "idle"
    /\ Returns("getPrefixSum", i, 0, getPrefixSum(_bitArray, i))
    /\ UNCHANGED <<prog, bit1, bit2, elems, builds>>

getOriginalValue_call(i) ==
    /\ prog = "BIT_1" /\ pc = "idle"
    /\ Returns("getOriginalValue", i, 0, getOriginalValue(_bitArray, i))
    /\ UNCHANGED <<prog, bit1, bit2, elems, builds>>

---------------------------------------------------------------------------
(* BinaryIndexedTree_Compact *)

\* BinaryIndexedTree_Compact::init
init(size) ==
    /\ prog = "BIT_2_compact_1" /\ pc = "idle"
    /\ IF size <= 0
          THEN UNCHANGED <<N, BIT, elems, builds>>
          ELSE /\ builds < MaxBuilds
               /\ N' = size
               /\ BIT' = resize(BIT, N')
               /\ elems' = Applied(elems, [i \in 1 .. size - 1 |-> 0], size - 1)
               /\ builds' = builds + 1
    /\ Returns("init", size, 0, 0)
    /\ UNCHANGED <<prog, bit1>>

\* a call add(id, num)
add_call(id, num) ==
    /\ prog = "BIT_2_compact_1" /\ pc = "idle"
    /\ id \in 1 .. capacity => elems[id] + num \in ElemValues
    /\ BIT' = add(BIT, id, num)
    /\ elems' = IF id \in 1 .. capacity THEN [elems EXCEPT ![id] = @ + num] ELSE elems
    /\ Returns("add", id, num, 0)
    /\ UNCHANGED <<prog, bit1, N, builds>>

\* a call sum(id)
sum_call(id) ==
    /\ prog = "BIT_2_compact_1" /\ pc = "idle"
    /\ Returns("sum", id, 0, sumOf(BIT, id))
    /\ UNCHANGED <<prog, bit1, bit2, elems, builds>>

---------------------------------------------------------------------------
Step ==
    \/ createFenwickTree_loop
    \/ createFenwickTree_return
    \/ updateTree_loop
    \/ updateTree_return
    \/ getSum_do
    \/ getSum_while
    \/ getSum_sub
    \/ getSum_return

Next ==
    \/ \E inp \in Inputs : createFenwickTree(inp)
    \/ \E i \in 0 .. _size, v \in Deltas : updateTree(i, v)
    \/ \E s, e \in 0 .. _size - 1 : getSum(s, e)
    \/ \E i \in 0 .. _size : getPrefixSum_call(i)
    \/ \E i \in 0 .. _size : getOriginalValue_call(i)
    \/ \E size \in -1 .. MaxCap + 1 : init(size)
    \/ \E id \in 0 .. N, num \in Deltas : add_call(id, num)
    \/ \E id \in 0 .. N : sum_call(id)
    \/ Step

Spec == Init /\ [][Next]_vars

\* a call that has begun keeps running: the thread is never descheduled for ever
LiveSpec == Init /\ [][Next]_vars /\ WF_vars(Step)

---------------------------------------------------------------------------
(* Properties *)

Queries == {"getPrefixSum", "getSum", "getOriginalValue", "sum"}
Updates == {"updateTree", "add"}

\* the last call has returned and no other has begun
Returned(ops) == pc = "idle" /\ outcome = "returned" /\ call.op \in ops

\* the prefix-sum query of the running program, on buffer bit
prefixSum(bit, i) == IF prog = "BIT_1" THEN getPrefixSum(bit, i) ELSE sumOf(bit, i)

\* C1: on an object whose buffer was sized once, whenever no call is running every
\* cell i in 1 .. capacity holds the sum of the logical elements i - lowbit(i) + 1 .. i
\* (the logical element being the sum of the deltas applied to the index), and a
\* query that has returned left the buffer as it was when the query began.
C1_CellsHoldRangeSums ==
    (pc = "idle" /\ builds <= 1) =>
        /\ \A i \in 1 .. capacity :
              cells[i] = SumElems(elems, i - lowbit(i) + 1, i)
        /\ call.op \in Queries => cells = pre

C1_Witness ==
    /\ Returned(Updates) /\ builds = 1
    /\ capacity >= 3 /\ call.a = 1
    /\ cells[2] # 0 /\ cells[2] # cells[1] /\ cells[3] # 0

\* C2: on an object whose buffer was sized once, prefixSum(index) with
\* 0 <= index <= capacity returns the sum of the logical elements 1 .. index
\* (0 for index 0).
C2_PrefixSumIsSumOfElements ==
    (Returned({"getPrefixSum", "sum"}) /\ builds <= 1 /\ 0 <= call.a /\ call.a <= capacity) =>
        /\ result = SumElems(elems, 1, call.a)
        /\ call.a = 0 => result = 0

C2_Witness ==
    /\ Returned({"getPrefixSum", "sum"}) /\ builds = 1
    /\ call.a = 3 /\ call.a <= capacity
    /\ elems[1] # 0 /\ elems[3] # 0 /\ result = elems[1] + elems[2] + elems[3]

\* C3: when update(i, delta) with 1 <= i <= capacity has returned, prefixSum(k) is
\* delta larger than when the call began for every k in i .. capacity, and the same
\* for every k in 0 .. i-1.
C3_UpdateShiftsPrefixSums ==
    (Returned(Updates) /\ call.a \in 1 .. capacity) =>
        \A k \in 0 .. capacity :
            prefixSum(cells, k) = prefixSum(pre, k) + (IF k >= call.a THEN call.b ELSE 0)

C3_Witness ==
    /\ Returned(Updates)
    /\ call.a = 2 /\ capacity >= 3
    /\ prefixSum(cells, 3) = prefixSum(pre, 3) + call.b
    /\ prefixSum(cells, 1) # 0

\* C4: when getSum(i, j) with 1 <= i <= j <= capacity has returned, its value is
\* getPrefixSum(j) - getPrefixSum(i-1).
C4_GetSumIsPrefixDifference ==
    (Returned({"getSum"}) /\ 1 <= call.a /\ call.a <= call.b /\ call.b <= capacity) =>
        result = getPrefixSum(_bitArray, call.b) - getPrefixSum(_bitArray, call.a - 1)

C4_Witness ==
    /\ Returned({"getSum"})
    /\ call.a = 2 /\ call.b = 4 /\ call.b <= capacity
    /\ _bitArray[1] # 0 /\ _bitArray[3] # 0 /\ result = 2

\* C5: getOriginalValue(i) with i in 1 .. capacity returns
\* getPrefixSum(i) - getPrefixSum(i-1).
C5_OriginalValueIsPrefixDifference ==
    (Returned({"getOriginalValue"}) /\ call.a \in 1 .. capacity) =>
        result = getPrefixSum(_bitArray, call.a) - getPrefixSum(_bitArray, call.a - 1)

C5_Witness ==
    /\ Returned({"getOriginalValue"})
    /\ call.a = 4 /\ call.a <= capacity
    /\ _bitArray[2] # 0 /\ _bitArray[3] # 0 /\ result # 0

\* C6: prefixSum(index) with index > capacity returns the sum of all logical
\* elements, the value of prefixSum(capacity).
C6_PrefixSumBeyondCapacityIsTotal ==
    (Returned({"getPrefixSum", "sum"}) /\ capacity >= 1 /\ call.a > capacity) =>
        result = prefixSum(cells, capacity)

\* C7: update(index, delta) with index outside 1 .. capacity ends in the error
\* IndexOutOfRange and leaves every cell unchanged.
C7_UpdateOutOfRangeFails ==
    (Returned(Updates) /\ capacity >= 1 /\ call.a \notin 1 .. capacity) =>
        outcome = "IndexOutOfRange" /\ cells = pre

\* the structure is Ready: it has a buffer
Ready == IF prog = "BIT_1" THEN _size > 0 ELSE N > 0

\* C8: create with a capacity that is zero or negative ends in the error
\* CapacityError and the structure does not become Ready.
C8_CreateNonPositiveFails ==
    (pc = "idle" /\ (\/ call.op = "init" /\ call.a <= 0
                     \/ call.op = "createFenwickTree" /\ call.a - 1 <= 0)) =>
        outcome = "CapacityError" /\ (pre = EmptyVec => ~Ready)

\* C9: every call runs to completion: a call that has begun returns.
C9_EveryCallReturns == (pc # "idle") ~> (pc = "idle")

\* C10: when createFenwickTree(values) has returned, getOriginalValue(i) = values[i]
\* for every i in 1 .. N, whatever the object held before the call.
C10_BuildRoundTrip ==
    Returned({"createFenwickTree"}) =>
        \A i \in 1 .. capacity : getOriginalValue(_bitArray, i) = input[i]

====
